---- MODULE Spec2Model ----
(***************************************************************************)
(* Model of src/output/apa.rs: the APA bibliography generator.             *)
(*                                                                         *)
(* Strings are sequences of one-character strings, so that concatenation,  *)
(* "last character" tests and padding are computed, not assumed.  An       *)
(* optional value (Rust Option / Result<T, _>) is a sequence of length 0   *)
(* (None / Err) or 1 (Some(v) / Ok(v)).  Indices into Vecs are 0-based as  *)
(* in the source; element i of a Vec v is v[i + 1].                        *)
(***************************************************************************)
EXTENDS Integers, Sequences, FiniteSets

VARIABLES
    names,   \* the Vec<String> handed to ampersand_list
    entry,   \* self.entries[index], the entry being formatted
    op,      \* the function that was called last ("none" before any call)
    ret,     \* what that call produced: [status |-> "ok" | "panic", val |-> ...]
    source_res  \* the local String `res` of the last get_source call, as assembled

vars == <<names, entry, op, ret, source_res>>

\* ------------------------------------------------------------------ bounds

MaxNames == 22
MaxParents == 2

\* ------------------------------------------------------- options and text

None == <<>>
Some(v) == <<v>>
is_ok(o) == Len(o) = 1
unwrap(o) == o[1]

Digit == <<"0", "1", "2", "3", "4", "5", "6", "7", "8", "9">>

\* Display for a non-negative integer: its decimal digits.
RECURSIVE Dec(_)
Dec(n) == IF n < 10 THEN <<Digit[n + 1]>> ELSE Dec(n \div 10) \o <<Digit[(n % 10) + 1]>>

\* Display for a signed integer.
Display(n) == IF n < 0 THEN <<"-">> \o Dec(0 - n) ELSE Dec(n)

RECURSIVE Zeros(_)
Zeros(k) == IF k <= 0 THEN <<>> ELSE <<"0">> \o Zeros(k - 1)

\* format!("{:04}", n): sign-aware zero padding to a minimum width of 4; the
\* sign counts towards the width and nothing is ever truncated.
Fmt04(n) ==
    LET digits == Dec(IF n < 0 THEN 0 - n ELSE n)
        sign == IF n < 0 THEN <<"-">> ELSE <<>>
    IN sign \o Zeros(4 - Len(sign) - Len(digits)) \o digits

\* str.chars().last().unwrap_or('a')
LastCharOr(s, d) == IF Len(s) = 0 THEN d ELSE s[Len(s)]

\* ------------------------------------------------------------- name lists

\* ampersand_loop with the ampersand placed one element too late
\* (index == name_len - 1 instead of name_len - 2).
RECURSIVE ampersand_loop_late(_, _, _)
ampersand_loop_late(nms, index, res) ==
    IF index >= Len(nms) THEN res
    ELSE LET name_len == Len(nms)
             name == nms[index + 1]
         IN IF index > 19 /\ name_len > 20 /\ index # name_len - 1
            THEN ampersand_loop_late(nms, index + 1, res)
            ELSE LET r1 == IF index = 19 /\ name_len > 20
                           THEN res \o <<".", ".", ".", " ">>
                           ELSE res \o name
                     r2 == IF index <= name_len - 2 THEN r1 \o <<",", " ">> ELSE r1
                     r3 == IF index = name_len - 1 THEN r2 \o <<"&", " ">> ELSE r2
                 IN ampersand_loop_late(nms, index + 1, r3)

\* The body of the for loop of ampersand_list, iterated from `index` with the
\* accumulated `res`.
RECURSIVE ampersand_loop(_, _, _)
ampersand_loop(nms, index, res) ==
    IF index >= Len(nms) THEN res
    ELSE LET name_len == Len(nms)
             name == nms[index + 1]
         IN IF index > 19 /\ name_len > 20 /\ index # name_len - 1
            THEN ampersand_loop(nms, index + 1, res)
            ELSE LET r1 == IF index = 19 /\ name_len > 20
                           THEN res \o <<".", ".", ".", " ">>
                           ELSE res \o name
                     r2 == IF index <= name_len - 2 THEN r1 \o <<",", " ">> ELSE r1
                     r3 == IF index = name_len - 2 THEN r2 \o <<"&", " ">> ELSE r2
                 IN ampersand_loop(nms, index + 1, r3)

ampersand_list(nms) == ampersand_loop(nms, 0, <<>>)

\* ------------------------------------------------- inputs: rendered names

\* Three families of rendered names: distinct short names, distinct names that
\* themselves contain ", " (as name_list produces with initials), and a list
\* whose names are all equal.
NameStyles == {"plain", "initials", "same"}

NameOf(style, i) ==
    CASE style = "plain" -> <<"P">> \o Dec(i)
      [] style = "initials" -> <<"v", " ", "G">> \o Dec(i) \o <<",", " ", "J", ".">>
      [] OTHER -> <<"X">>

NameLists ==
    { [i \in 1..n |-> NameOf(style, i - 1)] : n \in 0..MaxNames, style \in NameStyles }

\* ------------------------------------------------------------------ entries

EntryTypes ==
    {"Periodical", "InAnthology", "Anthology", "Entry", "Reference", "Article",
     "Proceedings", "Video", "Thesis", "Manuscript", "Artwork", "Exhibition",
     "WebItem", "Misc", "Blog", "Conference", "Book", "Report", "NewspaperIssue"}

\* Entry::new(key, entry_type): every optional field absent, no parents.
BlankEntry(t) ==
    [entry_type |-> t, parents |-> <<>>, title |-> None, authors |-> <<>>,
     editors |-> None, affiliated |-> None, date |-> None, volume |-> None,
     issue |-> None, edition |-> None, page_range |-> None,
     serial_number |-> None, url |-> None, publisher |-> None,
     organization |-> None, archive |-> None]

NoEntry == BlankEntry("Misc")
NoRet == [status |-> "none", val |-> <<>>]
Ok(v) == [status |-> "ok", val |-> v]
Panic == [status |-> "panic", val |-> <<>>]

\* ----------------------------------------------------- type specifications

Any == [kind |-> "Any", types |-> {}]
Specific(t) == [kind |-> "Specific", types |-> {t}]
Alternate(ts) == [kind |-> "Alternate", types |-> ts]

\* EntryTypeModality::check
modality_check(m, t) == m.kind = "Any" \/ t \in m.types

new(here, parents) == [here |-> here, parents |-> parents]
single_parent(here, parent) == new(here, <<new(parent, <<>>)>>)
with_single(t) == new(Specific(t), <<>>)
with_parents(t, parents) == new(Specific(t), parents)

\* Entry::check_with_spec: Err when the own type fails the modality or some
\* parent constraint has no matching parent; otherwise Ok with, for every
\* parent constraint in order, the index of the first parent that satisfies it
\* (an empty Vec when the constraint lists no parents).
RECURSIVE check_with_spec(_, _)
check_with_spec(e, constraint) ==
    IF ~modality_check(constraint.here, e.entry_type) THEN None
    ELSE LET matches(k) ==
                 { i \in 0..(Len(e.parents) - 1) :
                     is_ok(check_with_spec(e.parents[i + 1], constraint.parents[k])) }
             first(k) == CHOOSE i \in matches(k) : \A j \in matches(k) : i <= j
         IN IF \E k \in 1..Len(constraint.parents) : matches(k) = {}
            THEN None
            ELSE Some([k \in 1..Len(constraint.parents) |-> first(k)])

or_else(r, alt) == IF is_ok(r) THEN r ELSE alt

\* ------------------------------------------------------------- SourceType

\* A shape without a parent (Self::Thesis, ...).
Shape(shape) == Ok([shape |-> shape, parent |-> None])

tv_series == single_parent(Specific("Video"), Specific("Video"))

\* The TvSeries test without the issue/volume requirement.
tv_series_ok_untested(e) == is_ok(check_with_spec(e, tv_series))

\* The TvSeries test: the type pairing, and both an issue and a volume.
tv_series_ok(e) ==
    is_ok(check_with_spec(e, tv_series)) /\ is_ok(e.issue) /\ is_ok(e.volume)

\* Carry with the index taken one too far.
Carry_off_by_one(shape, e, i) ==
    IF Len(i) > 0 /\ i[1] + 1 < Len(e.parents)
    THEN Ok([shape |-> shape, parent |-> Some(i[1] + 1)])
    ELSE Panic

\* Self::X(&entry.get_parents_ref().unwrap()[i[0]]): the shape carries the
\* parent at index i[0]; indexing panics when i is empty or i[0] is out of
\* bounds of the parent list.
Carry(shape, e, i) ==
    IF Len(i) > 0 /\ i[1] < Len(e.parents)
    THEN Ok([shape |-> shape, parent |-> Some(i[1])])
    ELSE Panic

web_standalone == with_single("WebItem")

\* The StandaloneWebItem test taken to mean "a WebItem without parents".
web_standalone_ok_parentless(e) ==
    is_ok(check_with_spec(e, web_standalone)) /\ Len(e.parents) = 0

\* The StandaloneWebItem test: the own type alone.
web_standalone_ok(e) == is_ok(check_with_spec(e, web_standalone))

for_entry(e) ==
    LET periodical == single_parent(Any, Specific("Periodical"))
        collection_a == single_parent(Specific("InAnthology"), Specific("Anthology"))
        collection_b == single_parent(Specific("Entry"), Any)
        collection_c == single_parent(Any, Specific("Reference"))
        collection_d == single_parent(Specific("Article"), Specific("Proceedings"))
        thesis == with_single("Thesis")
        manuscript == with_single("Manuscript")
        art_container == single_parent(Any, Specific("Artwork"))
        art == new(Alternate({"Artwork", "Exhibition"}), <<>>)
        web_contained_a == single_parent(Any, Alternate({"Misc", "Blog", "WebItem"}))
        web_contained_b == single_parent(Specific("WebItem"), Any)
        talk == single_parent(Any, Specific("Conference"))
        collection ==
            or_else(or_else(or_else(check_with_spec(e, collection_a),
                                    check_with_spec(e, collection_b)),
                            check_with_spec(e, collection_c)),
                    check_with_spec(e, collection_d))
        web_contained ==
            or_else(check_with_spec(e, web_contained_a),
                    check_with_spec(e, web_contained_b))
    IN IF is_ok(check_with_spec(e, periodical))
       THEN Carry("PeriodicalItem", e, unwrap(check_with_spec(e, periodical)))
       ELSE IF is_ok(collection)
       THEN Carry("CollectionItem", e, unwrap(collection))
       ELSE IF tv_series_ok(e)
       THEN Carry("TvSeries", e, unwrap(check_with_spec(e, tv_series)))
       ELSE IF is_ok(check_with_spec(e, thesis))
       THEN Shape("Thesis")
       ELSE IF is_ok(check_with_spec(e, manuscript))
       THEN Shape("Manuscript")
       ELSE IF is_ok(check_with_spec(e, art_container))
       THEN Carry("ArtContainer", e, unwrap(check_with_spec(e, art_container)))
       ELSE IF is_ok(check_with_spec(e, art))
       THEN Shape("StandaloneArt")
       ELSE IF web_standalone_ok(e)
       THEN Shape("StandaloneWebItem")
       ELSE IF is_ok(web_contained)
       THEN Carry("WebItem", e, unwrap(web_contained))
       ELSE IF is_ok(check_with_spec(e, talk))
       THEN Carry("ConferenceTalk", e, unwrap(check_with_spec(e, talk)))
       ELSE Shape("Generic")

\* ------------------------------------------------------ external helpers

Upper == <<"A", "B", "C", "D", "E", "F", "G", "H", "I", "J", "K", "L", "M", "N", "O", "P", "Q", "R", "S", "T", "U", "V", "W", "X", "Y", "Z">>
Lower == <<"a", "b", "c", "d", "e", "f", "g", "h", "i", "j", "k", "l", "m", "n", "o", "p", "q", "r", "s", "t", "u", "v", "w", "x", "y", "z">>

lowercase(c) == IF \E k \in 1..26 : Upper[k] = c
                THEN Lower[CHOOSE k \in 1..26 : Upper[k] = c]
                ELSE c

\* SentenceCaseTransformer: the first character stays, the rest is lowered.
sentence_case(s) == [i \in 1..Len(s) |-> IF i = 1 THEN s[i] ELSE lowercase(s[i])]

\* entry.get_title_fmt(None, Some(&self.formatter)) followed by .sentence_case
get_title_fmt(e) == IF is_ok(e.title) THEN Some(sentence_case(unwrap(e.title))) ELSE None

MonthNames ==
    << <<"J", "a", "n", "u", "a", "r", "y">>,
       <<"F", "e", "b", "r", "u", "a", "r", "y">>,
       <<"M", "a", "r", "c", "h">>,
       <<"A", "p", "r", "i", "l">>,
       <<"M", "a", "y">>,
       <<"J", "u", "n", "e">>,
       <<"J", "u", "l", "y">>,
       <<"A", "u", "g", "u", "s", "t">>,
       <<"S", "e", "p", "t", "e", "m", "b", "e", "r">>,
       <<"O", "c", "t", "o", "b", "e", "r">>,
       <<"N", "o", "v", "e", "m", "b", "e", "r">>,
       <<"D", "e", "c", "e", "m", "b", "e", "r">> >>

\* lang::en::get_month_name: None outside 1..12
get_month_name(month) == IF month \in 1..12 THEN Some(MonthNames[month]) ELSE None

\* lang::en::get_ordinal
get_ordinal(n) ==
    Display(n) \o
    (IF (n % 100) \in 11..13 THEN <<"t", "h">>
     ELSE CASE n % 10 = 1 -> <<"s", "t">>
            [] n % 10 = 2 -> <<"n", "d">>
            [] n % 10 = 3 -> <<"r", "d">>
            [] OTHER -> <<"t", "h">>)

\* Person::get_initials(Some(".")): one initial per space- or hyphen-delimited
\* token of the given name, each followed by ".", the delimiters kept.
RECURSIVE initials_loop(_, _, _)
initials_loop(given, i, at_start) ==
    IF i > Len(given) THEN <<>>
    ELSE IF given[i] \in {" ", "-"} THEN <<given[i]>> \o initials_loop(given, i + 1, TRUE)
    ELSE IF at_start THEN <<given[i], ".">> \o initials_loop(given, i + 1, FALSE)
    ELSE initials_loop(given, i + 1, FALSE)

get_initials(person) ==
    IF is_ok(person.given_name)
    THEN Some(initials_loop(unwrap(person.given_name), 1, TRUE))
    ELSE None

\* ---------------------------------------------------------------- helpers

EnDash == "en-dash"

format_range(prefix_s, prefix_m, range) ==
    LET space == IF Len(prefix_s) = 0 THEN <<>> ELSE <<" ">>
    IN IF range.start = range.end
       THEN prefix_s \o space \o Display(range.start)
       ELSE prefix_m \o space \o Display(range.start) \o <<EnDash>> \o Display(range.end)

\* The body of the for loop of name_list for one person.
name_of(author) ==
    LET single0 == IF is_ok(author.prefix)
                   THEN unwrap(author.prefix) \o <<" ">> \o author.name
                   ELSE author.name
        single1 == IF is_ok(get_initials(author))
                   THEN single0 \o <<",", " ">> \o unwrap(get_initials(author))
                   ELSE single0
    IN IF is_ok(author.suffix)
       THEN single1 \o <<",", " ">> \o unwrap(author.suffix)
       ELSE single1

name_list(persons) == [i \in 1..Len(persons) |-> name_of(persons[i])]


ed_vol_str(e) ==
    LET vstr == IF is_ok(e.volume)
                THEN Some(format_range(<<"V", "o", "l", ".">>, <<"V", "o", "l", "s", ".">>, unwrap(e.volume)))
                ELSE None
        estr == IF is_ok(e.edition)
                THEN Some(IF unwrap(e.edition).kind = "Number"
                          THEN get_ordinal(unwrap(e.edition).n)
                          ELSE unwrap(e.edition).s)
                ELSE None
    IN CASE ~is_ok(estr) /\ ~is_ok(vstr) -> <<>>
         [] is_ok(estr) /\ ~is_ok(vstr) -> <<" ", "(">> \o unwrap(estr) \o <<" ", "e", "d", ".", ")", ".">>
         [] ~is_ok(estr) /\ is_ok(vstr) -> <<" ", "(">> \o unwrap(vstr) \o <<")", ".">>
         [] OTHER -> <<" ", "(">> \o unwrap(estr) \o <<" ", "e", "d", ".", ",", " ">> \o unwrap(vstr) \o <<")", ".">>

\* --------------------------------------------- ApaBibliographyGenerator

get_author(e) == Ok(ampersand_list(name_list(e.authors)))

\* get_date with the year written without padding ("{}" for "{:04}").
get_date_unpadded(e) ==
    IF is_ok(e.date)
    THEN LET date == unwrap(e.date)
         IN IF ~is_ok(date.month)
            THEN Ok(<<"(">> \o Display(date.year) \o <<")">>)
            ELSE IF ~is_ok(get_month_name(unwrap(date.month))) THEN Panic
            ELSE IF ~is_ok(date.day)
            THEN Ok(<<"(">> \o Display(date.year) \o <<",", " ">>
                    \o unwrap(get_month_name(unwrap(date.month))) \o <<")">>)
            ELSE Ok(<<"(">> \o Display(date.year) \o <<",", " ">>
                    \o unwrap(get_month_name(unwrap(date.month)))
                    \o <<" ">> \o Display(unwrap(date.day)) \o <<")">>)
    ELSE Ok(<<"(", "n", ".", " ", "d", ".", ")">>)

get_date(e) ==
    IF is_ok(e.date)
    THEN LET date == unwrap(e.date)
         IN IF ~is_ok(date.month)
            THEN Ok(<<"(">> \o Fmt04(date.year) \o <<")">>)
            ELSE IF ~is_ok(get_month_name(unwrap(date.month))) THEN Panic
            ELSE IF ~is_ok(date.day)
            THEN Ok(<<"(">> \o Fmt04(date.year) \o <<",", " ">>
                    \o unwrap(get_month_name(unwrap(date.month))) \o <<")">>)
            ELSE Ok(<<"(">> \o Fmt04(date.year) \o <<",", " ">>
                    \o unwrap(get_month_name(unwrap(date.month)))
                    \o <<" ">> \o Display(unwrap(date.day)) \o <<")">>)
    ELSE Ok(<<"(", "n", ".", " ", "d", ".", ")">>)

get_retreival_date(e) ==
    IF is_ok(e.url)
    THEN LET qurl == unwrap(e.url)
             uv == qurl.value
         IN IF is_ok(qurl.visit_date)
            THEN LET date == unwrap(qurl.visit_date)
                 IN IF ~is_ok(date.month)
                    THEN Ok(Some(<<"R", "e", "t", "r", "i", "e", "v", "e", "d", " ">> \o Fmt04(date.year) \o <<",", " ", "f", "r", "o", "m", " ">> \o uv))
                    ELSE IF ~is_ok(get_month_name(unwrap(date.month))) THEN Panic
                    ELSE IF ~is_ok(date.day)
                    THEN Ok(Some(<<"R", "e", "t", "r", "i", "e", "v", "e", "d", " ">> \o unwrap(get_month_name(unwrap(date.month)))
                                 \o <<" ">> \o Fmt04(date.year) \o <<",", " ", "f", "r", "o", "m", " ">> \o uv))
                    ELSE Ok(Some(<<"(", "R", "e", "t", "r", "i", "e", "v", "e", "d", " ">> \o unwrap(get_month_name(unwrap(date.month)))
                                 \o <<" ">> \o Display(unwrap(date.day)) \o <<",", " ">>
                                 \o Fmt04(date.year) \o <<",", " ", "f", "r", "o", "m", " ">> \o uv \o <<")">>))
            ELSE Ok(Some(uv))
    ELSE Ok(None)

\* The terminal period of lines 327-331 and 419-423: pushed unless the text
\* ends in '?', '.' or '!'.
push_period(res) ==
    IF LastCharOr(res, "a") \notin {"?", ".", "!"} THEN res \o <<".">> ELSE res

book_spec == new(Alternate({"Book", "Report", "Reference", "Anthology", "Proceedings"}), <<>>)

multivol_spec == with_parents("Book", <<with_single("Book")>>)

\* The index of the multivolume parent: Some(parents[0]) when the entry is a
\* Book with a Book parent and has a volume.
multivolume_parent(e) ==
    IF is_ok(check_with_spec(e, multivol_spec)) /\ is_ok(e.volume)
    THEN Some(unwrap(check_with_spec(e, multivol_spec))[1])
    ELSE None

\* get_title where the edition/volume branch is followed by the plain
\* terminator instead of excluding it.
get_title_fallthrough(e) ==
    IF is_ok(get_title_fmt(e))
    THEN LET res == unwrap(get_title_fmt(e))
         IN IF is_ok(multivolume_parent(e))
            THEN LET p == e.parents[unwrap(multivolume_parent(e)) + 1]
                 IN IF ~is_ok(get_title_fmt(p)) THEN Panic
                    ELSE Ok(Some(unwrap(get_title_fmt(p)) \o <<":", " ">>
                                 \o format_range(<<"V", "o", "l", ".">>, <<"V", "o", "l", "s", ".">>, unwrap(e.volume))
                                 \o <<" ">> \o res \o <<".">>))
            ELSE IF (is_ok(e.volume) \/ is_ok(e.edition)) /\ is_ok(check_with_spec(e, book_spec))
            THEN Ok(Some(push_period(res) \o ed_vol_str(e)))
            ELSE Ok(Some(push_period(res)))
    ELSE Ok(None)

get_title(e) ==
    IF is_ok(get_title_fmt(e))
    THEN LET res == unwrap(get_title_fmt(e))
         IN IF is_ok(multivolume_parent(e))
            THEN LET p == e.parents[unwrap(multivolume_parent(e)) + 1]
                 IN IF ~is_ok(get_title_fmt(p)) THEN Panic
                    ELSE Ok(Some(unwrap(get_title_fmt(p)) \o <<":", " ">>
                                 \o format_range(<<"V", "o", "l", ".">>, <<"V", "o", "l", "s", ".">>, unwrap(e.volume))
                                 \o <<" ">> \o res \o <<".">>))
            ELSE IF (is_ok(e.volume) \/ is_ok(e.edition)) /\ is_ok(check_with_spec(e, book_spec))
            THEN Ok(Some(res \o ed_vol_str(e)))
            ELSE Ok(Some(push_period(res)))
    ELSE Ok(None)

\* ------------------------------------------------------------ get_source

\* The PeriodicalItem arm with `comma = true` missing after the volume/issue
\* clause.
periodical_source_no_flag(e, parent) ==
    LET title == get_title_fmt(parent)
        res0 == IF is_ok(title) THEN unwrap(title) ELSE <<>>
        comma0 == is_ok(title)
        has_vi == is_ok(parent.volume) \/ is_ok(parent.issue)
        res1 == IF has_vi
                THEN res0
                     \o (IF comma0 THEN <<",", " ">> ELSE <<>>)
                     \o (IF is_ok(parent.volume)
                         THEN format_range(<<>>, <<>>, unwrap(parent.volume)) ELSE <<>>)
                     \o (IF is_ok(parent.issue)
                         THEN <<"(">> \o Display(unwrap(parent.issue)) \o <<")">> ELSE <<>>)
                ELSE res0
        comma1 == comma0
        has_sp == is_ok(e.serial_number) \/ is_ok(e.page_range)
        res2 == IF has_sp
                THEN res1
                     \o (IF comma1 THEN <<",", " ">> ELSE <<>>)
                     \o (IF is_ok(e.serial_number) THEN unwrap(e.serial_number)
                         ELSE format_range(<<>>, <<>>, unwrap(e.page_range)))
                ELSE res1
        comma2 == comma1 \/ has_vi \/ has_sp
    IN IF comma2 THEN res2 \o <<".">> ELSE res2

\* SourceType::PeriodicalItem(parent) arm.
periodical_source(e, parent) ==
    LET title == get_title_fmt(parent)
        res0 == IF is_ok(title) THEN unwrap(title) ELSE <<>>
        comma0 == is_ok(title)
        has_vi == is_ok(parent.volume) \/ is_ok(parent.issue)
        res1 == IF has_vi
                THEN res0
                     \o (IF comma0 THEN <<",", " ">> ELSE <<>>)
                     \o (IF is_ok(parent.volume)
                         THEN format_range(<<>>, <<>>, unwrap(parent.volume)) ELSE <<>>)
                     \o (IF is_ok(parent.issue)
                         THEN <<"(">> \o Display(unwrap(parent.issue)) \o <<")">> ELSE <<>>)
                ELSE res0
        comma1 == comma0 \/ has_vi
        has_sp == is_ok(e.serial_number) \/ is_ok(e.page_range)
        res2 == IF has_sp
                THEN res1
                     \o (IF comma1 THEN <<",", " ">> ELSE <<>>)
                     \o (IF is_ok(e.serial_number) THEN unwrap(e.serial_number)
                         ELSE format_range(<<>>, <<>>, unwrap(e.page_range)))
                ELSE res1
        comma2 == comma1 \/ has_sp
    IN IF comma2 THEN res2 \o <<".">> ELSE res2

\* The editors of the CollectionItem arm: parent.get_editors(), nothing on Err.
collection_persons(e, parent) ==
    IF is_ok(parent.editors) THEN unwrap(parent.editors) ELSE <<>>

RECURSIVE flatten(_)
flatten(ss) == IF Len(ss) = 0 THEN <<>> ELSE Head(ss) \o flatten(Tail(ss))

\* The prods of the TvSeries arm: the persons of the parent's affiliated
\* entries with the ExecutiveProducer role; the entry's authors only when
\* get_affiliated_persons() is Err.
tv_persons(e, parent) ==
    IF is_ok(parent.affiliated)
    THEN LET p == unwrap(parent.affiliated)
             kept == SelectSeq(p, LAMBDA x : x.role = "ExecutiveProducer")
         IN flatten([k \in 1..Len(kept) |-> kept[k].persons])
    ELSE e.authors

\* The CollectionItem and TvSeries arms after the persons are chosen: the
\* "(Ed.)"/"(Eds.)" clause, the parent's title with its suffix, "In ", and the
\* publisher clause.
container_source(e, parent, persons) ==
    LET nms == name_list(persons)
        res0 == CASE Len(nms) = 0 -> <<>>
                  [] Len(nms) = 1 -> nms[1] \o <<" ", "(", "E", "d", ".", ")">>
                  [] OTHER -> ampersand_list(nms) \o <<" ", "(", "E", "d", "s", ".", ")">>
        comma0 == Len(nms) > 0
        title == get_title_fmt(parent)
        res1 == IF is_ok(title)
                THEN LET t == res0 \o (IF comma0 THEN <<",", " ">> ELSE <<>>) \o unwrap(title)
                     IN IF is_ok(parent.volume) \/ is_ok(parent.edition)
                        THEN t \o <<" ">> \o ed_vol_str(e)
                        ELSE push_period(t)
                ELSE res0
        comma1 == IF is_ok(title) THEN FALSE ELSE comma0
        res2 == IF comma1 THEN res1 \o <<".">> ELSE res1
        res3 == IF Len(res2) > 0 THEN <<"I", "n", " ">> \o res2 ELSE res2
    IN IF is_ok(parent.publisher) \/ is_ok(parent.organization)
       THEN res3 \o <<" ">>
            \o (IF is_ok(parent.publisher) THEN unwrap(parent.publisher)
                ELSE unwrap(parent.organization))
            \o <<".">>
       ELSE res3

\* The value of the local `res` of get_source when the match statement is left.
source_clause(e) ==
    LET st == for_entry(e)
        shape == st.val.shape
        parent == e.parents[unwrap(st.val.parent) + 1]
    IN IF st.status # "ok" THEN <<>>
       ELSE CASE shape = "PeriodicalItem" -> periodical_source(e, parent)
              [] shape = "CollectionItem" ->
                    container_source(e, parent, collection_persons(e, parent))
              [] shape = "TvSeries" ->
                    container_source(e, parent, tv_persons(e, parent))
              [] shape = "Thesis" ->
                    IF is_ok(e.archive) THEN unwrap(e.archive) \o <<".">>
                    ELSE IF is_ok(e.organization) THEN unwrap(e.organization) \o <<".">>
                    ELSE <<>>
              [] shape = "Manuscript" ->
                    IF is_ok(e.archive) THEN unwrap(e.archive) \o <<".">> ELSE <<>>
              [] shape = "Generic" ->
                    IF is_ok(e.publisher) THEN unwrap(e.publisher) \o <<".">>
                    ELSE IF is_ok(e.organization) THEN unwrap(e.organization) \o <<".">>
                    ELSE <<>>
              [] OTHER -> <<>>

\* get_source ends in todo!() (line 549): whatever was assembled, the call
\* panics instead of returning.
get_source(e) == Panic

\* --------------------------------------------- inputs: entries to classify

RECURSIVE SeqsUpTo(_, _)
SeqsUpTo(S, n) ==
    IF n = 0 THEN {<<>>}
    ELSE LET shorter == SeqsUpTo(S, n - 1)
         IN shorter \cup { Append(s, x) : s \in { t \in shorter : Len(t) = n - 1 }, x \in S }

\* The types for_entry names in a parent position, and Book for every other
\* type (for_entry tells no other parent types apart).
ClassifyParentTypes ==
    {"Periodical", "Anthology", "Reference", "Proceedings", "Video", "Artwork",
     "Misc", "Blog", "WebItem", "Conference", "Book"}

ClassifyEntries ==
    { [BlankEntry(t) EXCEPT !.parents = ps, !.issue = i, !.volume = v] :
        t \in EntryTypes,
        ps \in SeqsUpTo({ BlankEntry(pt) : pt \in ClassifyParentTypes }, MaxParents),
        i \in {None, Some(2)},
        v \in {None, Some([start |-> 1, end |-> 1])} }

\* ----------------------------------------------- inputs: entries to render

\* The persons of tests::name_list ("ue" and "ae" stand for the umlauts), and
\* one without given name but with a suffix.
Graf == [name |-> <<"G", "r", "a", "f">>, prefix |-> Some(<<"v", "a", "n", " ", "d", "e">>),
         given_name |-> Some(<<"J", "u", "d", "i", "t", "h">>), suffix |-> None]
Gunther == [name |-> <<"G", "ue", "n", "t", "h", "e", "r">>, prefix |-> None,
            given_name |-> Some(<<"H", "a", "n", "s", "-", "J", "o", "s", "e", "p", "h">>), suffix |-> None]
Madje == [name |-> <<"M", "ae", "d", "j", "e">>, prefix |-> None,
          given_name |-> Some(<<"L", "a", "u", "r", "e", "n", "z", " ", "E", "l", "i", "a", "s">>), suffix |-> None]
Doe == [name |-> <<"D", "o", "e">>, prefix |-> None, given_name |-> None, suffix |-> Some(<<"J", "r", ".">>)]

PersonLists == {<<>>, <<Graf>>, <<Doe>>, <<Graf, Gunther>>, <<Graf, Gunther, Madje>>}

Years == {-44, 0, 476, 2020, 9999, 10000}

Dates ==
    { [year |-> y, month |-> m, day |-> d] :
        y \in Years, m \in {None, Some(1), Some(3), Some(12)}, d \in {None, Some(5), Some(31)} }

\* A day is only given together with a month.
ValidDates == { d \in Dates : is_ok(d.day) => is_ok(d.month) }

Urls ==
    {None}
    \cup { Some([value |-> <<"a", ".", "i", "o">>, visit_date |-> v]) :
             v \in {None} \cup { Some(d) : d \in { x \in ValidDates : x.year \in {476, 2020} } } }

AuthorEntries ==
    { [BlankEntry("NewspaperIssue") EXCEPT !.authors = a] : a \in PersonLists }

DateEntries ==
    { [BlankEntry("Misc") EXCEPT !.date = d] :
        d \in {None} \cup { Some(x) : x \in ValidDates } }
    \cup { [BlankEntry("WebItem") EXCEPT !.date = d, !.url = u] :
             d \in {None, Some([year |-> 2020, month |-> Some(3), day |-> Some(5)])},
             u \in Urls }

Titles == {None, Some(<<"O", "n", " ", "G", "r", "o", "w", "t", "h">>), Some(<<"W", "h", "y", "?">>), Some(<<>>)}
Volumes == {None, Some([start |-> 4, end |-> 4]), Some([start |-> 3, end |-> 5])}
Editions ==
    {None, Some([kind |-> "Number", n |-> 2]), Some([kind |-> "Number", n |-> 11]),
     Some([kind |-> "Str", s |-> <<"R", "e", "v", ".">>])}

TitleParents ==
    { [BlankEntry("Book") EXCEPT !.title = Some(<<"W", "o", "r", "k", "s">>)], BlankEntry("Book"),
      [BlankEntry("Periodical") EXCEPT !.title = Some(<<"N", "a", "t", "u", "r", "e">>)] }

TitleEntries ==
    { [BlankEntry(t) EXCEPT !.parents = ps, !.title = ti, !.volume = v, !.edition = ed] :
        t \in {"Book", "Report", "Reference", "Anthology", "Proceedings", "Article"},
        ps \in SeqsUpTo(TitleParents, MaxParents),
        ti \in Titles, v \in Volumes, ed \in Editions }

\* A parent no type test is after, placed in front of the one that matters.
Decoy == [BlankEntry("Book") EXCEPT !.title = Some(<<"D", "e", "c", "o", "y">>), !.volume = Some([start |-> 9, end |-> 9]),
                                    !.publisher = Some(<<"P", "r", "e", "s", "s">>)]

WithDecoy(parent) == {<<parent>>, <<Decoy, parent>>}

PeriodicalEntries ==
    { [BlankEntry("Article") EXCEPT !.parents = ps, !.serial_number = sn, !.page_range = pr] :
        ps \in UNION { WithDecoy([BlankEntry("Periodical") EXCEPT
                                     !.title = ti, !.volume = v, !.issue = i]) :
                         ti \in {None, Some(<<"N", "a", "t", "u", "r", "e">>)}, v \in Volumes, i \in {None, Some(2)} },
        sn \in {None, Some(<<"e", "4", "2">>)},
        pr \in {None, Some([start |-> 7, end |-> 7]), Some([start |-> 10, end |-> 19])} }

CollectionEntries ==
    { [BlankEntry("InAnthology") EXCEPT !.parents = ps, !.volume = v, !.edition = ed] :
        ps \in UNION { WithDecoy([BlankEntry("Anthology") EXCEPT
                                     !.editors = eds, !.title = ti, !.volume = pv,
                                     !.edition = ped, !.publisher = pub,
                                     !.organization = org]) :
                         eds \in {None, Some(<<>>), Some(<<Graf>>), Some(<<Graf, Doe>>)},
                         ti \in {None, Some(<<"O", "n", " ", "G", "r", "o", "w", "t", "h">>), Some(<<"W", "h", "y", "?">>)},
                         pv \in {None, Some([start |-> 3, end |-> 5])},
                         ped \in {None, Some([kind |-> "Number", n |-> 2])},
                         pub \in {None, Some(<<"P", "r", "e", "s", "s">>)},
                         org \in {None, Some(<<"G", "u", "i", "l", "d">>)} },
        v \in {None, Some([start |-> 4, end |-> 4])},
        ed \in {None, Some([kind |-> "Number", n |-> 3])} }

Affiliations ==
    {None, Some(<<>>),
     Some(<<[persons |-> <<Doe>>, role |-> "Director"]>>),
     Some(<<[persons |-> <<Gunther>>, role |-> "ExecutiveProducer"]>>),
     Some(<<[persons |-> <<Doe>>, role |-> "Director"],
            [persons |-> <<Gunther, Madje>>, role |-> "ExecutiveProducer"]>>)}

TvEntries ==
    { [BlankEntry("Video") EXCEPT !.parents = ps, !.authors = a,
                                  !.issue = Some(3), !.volume = Some([start |-> 1, end |-> 1])] :
        ps \in UNION { WithDecoy([BlankEntry("Video") EXCEPT
                                     !.affiliated = aff, !.title = ti, !.publisher = pub]) :
                         aff \in Affiliations,
                         ti \in {None, Some(<<"O", "n", " ", "G", "r", "o", "w", "t", "h">>)},
                         pub \in {None, Some(<<"P", "r", "e", "s", "s">>)} },
        a \in {<<>>, <<Graf>>} }

OtherEntries ==
    { [BlankEntry(t) EXCEPT !.archive = ar, !.organization = org, !.publisher = pub] :
        t \in {"Thesis", "Manuscript", "Misc", "WebItem", "Artwork"},
        ar \in {None, Some(<<"V", "a", "u", "l", "t">>)},
        org \in {None, Some(<<"G", "u", "i", "l", "d">>)},
        pub \in {None, Some(<<"P", "r", "e", "s", "s">>)} }

RenderEntries ==
    AuthorEntries \cup DateEntries \cup TitleEntries \cup PeriodicalEntries
    \cup CollectionEntries \cup TvEntries \cup OtherEntries

\* ---------------------------------------------------------------- actions

InitNames ==
    /\ names \in NameLists
    /\ entry = NoEntry
    /\ op = "none"
    /\ ret = NoRet
    /\ source_res = <<>>

AmpersandList ==
    /\ op' = "ampersand_list"
    /\ ret' = Ok(ampersand_list(names))
    /\ UNCHANGED <<names, entry, source_res>>

NextNames == AmpersandList

SpecNames == InitNames /\ [][NextNames]_vars

InitClassify ==
    /\ names = <<>>
    /\ entry \in ClassifyEntries
    /\ op = "none"
    /\ ret = NoRet
    /\ source_res = <<>>

ForEntry ==
    /\ op' = "for_entry"
    /\ ret' = for_entry(entry)
    /\ UNCHANGED <<names, entry, source_res>>

NextClassify == ForEntry

SpecClassify == InitClassify /\ [][NextClassify]_vars

Init ==
    /\ names = <<>>
    /\ entry \in RenderEntries
    /\ op = "none"
    /\ ret = NoRet
    /\ source_res = <<>>

GetAuthor ==
    /\ op' = "get_author"
    /\ ret' = get_author(entry)
    /\ UNCHANGED <<names, entry, source_res>>

GetDate ==
    /\ op' = "get_date"
    /\ ret' = get_date(entry)
    /\ UNCHANGED <<names, entry, source_res>>

GetRetreivalDate ==
    /\ op' = "get_retreival_date"
    /\ ret' = get_retreival_date(entry)
    /\ UNCHANGED <<names, entry, source_res>>

GetTitle ==
    /\ op' = "get_title"
    /\ ret' = get_title(entry)
    /\ UNCHANGED <<names, entry, source_res>>

GetSource ==
    /\ op' = "get_source"
    /\ source_res' = source_clause(entry)
    /\ ret' = get_source(entry)
    /\ UNCHANGED <<names, entry>>

Next == GetAuthor \/ GetDate \/ GetRetreivalDate \/ GetTitle \/ GetSource

Spec == Init /\ [][Next]_vars

\* ================================================================= claims

RECURSIVE Concat(_)
Concat(ss) == IF Len(ss) = 0 THEN <<>> ELSE Head(ss) \o Concat(Tail(ss))

\* ---- C1

\* What C1 describes for a list of at most 20 names: every name in order, ", "
\* after each name but the last, and "& " right before the last of two or more.
C1_Expected(nms) ==
    LET n == Len(nms)
    IN Concat([i \in 1..n |->
                  (IF i = n /\ n >= 2 THEN <<"&", " ">> ELSE <<>>)
                  \o nms[i]
                  \o (IF i < n THEN <<",", " ">> ELSE <<>>)])

\* C1: for 0 <= N <= 20 names ampersand_list returns "" for N = 0, the single
\* name for N = 1, and for N >= 2 all names in order, each non-last name
\* followed by ", " and "& " inserted immediately before the last name.
C1_AmpersandUpTo20 ==
    (op = "ampersand_list" /\ Len(names) <= 20) => ret = Ok(C1_Expected(names))

\* Three names P0, P1, P2 have been joined to "P0, P1, & P2".
C1_Witness ==
    /\ op = "ampersand_list"
    /\ names = <<<<"P", "0">>, <<"P", "1">>, <<"P", "2">>>>
    /\ ret.val = <<"P", "0", ",", " ", "P", "1", ",", " ", "&", " ", "P", "2">>

\* ---- C2

\* What C2 describes for more than 20 names: names 0..18 each followed by
\* ", ", then "... ", then directly the last name.
C2_Expected(nms) ==
    Concat([i \in 1..19 |-> nms[i] \o <<",", " ">>])
    \o <<".", ".", ".", " ">> \o nms[Len(nms)]

\* C2: for N > 20 names ampersand_list renders names 0..18 each followed by
\* ", ", then "... ", then directly name N-1, with no "&" and no separator
\* between "... " and the last name.
C2_Truncated ==
    (op = "ampersand_list" /\ Len(names) > 20) => ret = Ok(C2_Expected(names))

\* ---- C3

HasParentOf(e, types) == \E i \in 1..Len(e.parents) : e.parents[i].entry_type \in types

\* The tests of the cascade in the order C3 gives them, each with the shape it
\* selects and whether the entry satisfies it.
C3_Tests(e) ==
    << [shape |-> "PeriodicalItem", hit |-> HasParentOf(e, {"Periodical"})],
       [shape |-> "CollectionItem",
        hit |-> \/ e.entry_type = "InAnthology" /\ HasParentOf(e, {"Anthology"})
                \/ e.entry_type = "Entry" /\ Len(e.parents) > 0
                \/ HasParentOf(e, {"Reference"})
                \/ e.entry_type = "Article" /\ HasParentOf(e, {"Proceedings"})],
       [shape |-> "TvSeries",
        hit |-> /\ e.entry_type = "Video" /\ HasParentOf(e, {"Video"})
                /\ is_ok(e.issue) /\ is_ok(e.volume)],
       [shape |-> "Thesis", hit |-> e.entry_type = "Thesis"],
       [shape |-> "Manuscript", hit |-> e.entry_type = "Manuscript"],
       [shape |-> "ArtContainer", hit |-> HasParentOf(e, {"Artwork"})],
       [shape |-> "StandaloneArt", hit |-> e.entry_type \in {"Artwork", "Exhibition"}],
       [shape |-> "StandaloneWebItem", hit |-> e.entry_type = "WebItem"],
       [shape |-> "WebItem",
        hit |-> \/ HasParentOf(e, {"Misc", "Blog", "WebItem"})
                \/ e.entry_type = "WebItem" /\ Len(e.parents) > 0],
       [shape |-> "ConferenceTalk", hit |-> HasParentOf(e, {"Conference"})] >>

C3_FirstShape(e) ==
    LET tests == C3_Tests(e)
        hits == { k \in 1..Len(tests) : tests[k].hit }
    IN IF hits = {} THEN "Generic"
       ELSE tests[CHOOSE k \in hits : \A j \in hits : k <= j].shape

\* C3: for_entry returns exactly the shape of the earliest matching test in the
\* order Periodical, Collection, TvSeries (needs issue and volume), Thesis,
\* Manuscript, ArtContainer, StandaloneArt, StandaloneWebItem, WebItem,
\* ConferenceTalk, and Generic exactly when none matches; an entry with a
\* Periodical parent is always a PeriodicalItem.
C3_FirstMatchWins ==
    op = "for_entry" =>
        /\ ret.status = "ok"
        /\ ret.val.shape = C3_FirstShape(entry)
        /\ HasParentOf(entry, {"Periodical"}) => ret.val.shape = "PeriodicalItem"

\* A WebItem entry whose second parent is a Periodical (it also satisfies the
\* StandaloneWebItem and WebItem tests) was classified as PeriodicalItem.
C3_Witness ==
    /\ op = "for_entry"
    /\ entry.entry_type = "WebItem"
    /\ Len(entry.parents) = 2
    /\ entry.parents[1].entry_type = "Blog"
    /\ entry.parents[2].entry_type = "Periodical"
    /\ ret.val.shape = "PeriodicalItem"

\* ---- C4

ShapeOnly == {"Thesis", "Manuscript", "StandaloneArt", "StandaloneWebItem", "Generic"}

\* The parent types admitted by the type test that selected `shape` for e.
C4_AdmittedParents(e, shape) ==
    CASE shape = "PeriodicalItem" -> {"Periodical"}
      [] shape = "CollectionItem" ->
            IF e.entry_type = "InAnthology" /\ HasParentOf(e, {"Anthology"})
            THEN {"Anthology"}
            ELSE IF e.entry_type = "Entry" THEN EntryTypes
            ELSE IF HasParentOf(e, {"Reference"}) THEN {"Reference"}
            ELSE {"Proceedings"}
      [] shape = "TvSeries" -> {"Video"}
      [] shape = "ArtContainer" -> {"Artwork"}
      [] shape = "WebItem" ->
            IF HasParentOf(e, {"Misc", "Blog", "WebItem"})
            THEN {"Misc", "Blog", "WebItem"}
            ELSE EntryTypes
      [] shape = "ConferenceTalk" -> {"Conference"}
      [] OTHER -> {}

\* C4: an entry without parents gets a shape-only result; a parent-carrying
\* shape carries an index inside the entry's parent list, namely the first
\* parent the matching type test admits.
C4_ParentIndexValid ==
    op = "for_entry" =>
        /\ ret.status = "ok"
        /\ Len(entry.parents) = 0 =>
               ret.val.shape \in ShapeOnly /\ ret.val.parent = None
        /\ ret.val.shape \in ShapeOnly <=> ret.val.parent = None
        /\ is_ok(ret.val.parent) =>
               LET i == unwrap(ret.val.parent)
                   admitted == C4_AdmittedParents(entry, ret.val.shape)
               IN /\ i \in 0..(Len(entry.parents) - 1)
                  /\ entry.parents[i + 1].entry_type \in admitted
                  /\ \A j \in 0..(i - 1) : entry.parents[j + 1].entry_type \notin admitted

\* A book section whose second parent is the Artwork was classified as
\* ArtContainer carrying index 1; and a parentless Thesis as Thesis.
C4_Witness ==
    /\ op = "for_entry"
    /\ Len(entry.parents) = 2
    /\ entry.parents[1].entry_type = "Book"
    /\ entry.parents[2].entry_type = "Artwork"
    /\ ret.val.shape = "ArtContainer"
    /\ ret.val.parent = Some(1)

\* ---- C5

Renderers == {"get_author", "get_date", "get_retreival_date", "get_title", "get_source"}

\* C5: whatever fields are present or absent on the entry and its parents,
\* each segment renderer (get_author, get_date, get_retreival_date, get_title,
\* get_source) completes and returns a value; it never aborts.
C5_RenderersReturn == op \in Renderers => ret.status = "ok"

\* ---- C6

BookTypes == {"Book", "Report", "Reference", "Anthology", "Proceedings"}

C6_RangeLabel(range) ==
    IF range.start = range.end
    THEN <<"V", "o", "l", ".", " ">> \o Dec(range.start)
    ELSE <<"V", "o", "l", "s", ".", " ">> \o Dec(range.start) \o <<EnDash>> \o Dec(range.end)

C6_EditionLabel(ed) == IF ed.kind = "Number" THEN get_ordinal(ed.n) ELSE ed.s

\* The title C6 describes: the sentence-cased title and then exactly
\* " ({Ordinal} ed., {RangeLabel})."
C6_Expected(e) ==
    sentence_case(unwrap(e.title)) \o <<" ", "(">> \o C6_EditionLabel(unwrap(e.edition))
    \o <<" ", "e", "d", ".", ",", " ">> \o C6_RangeLabel(unwrap(e.volume)) \o <<")", ".">>

C6_Applies(e) ==
    /\ is_ok(e.title)
    /\ e.entry_type \in BookTypes
    /\ is_ok(e.edition)
    /\ is_ok(e.volume)

\* C6 as stated: for every titled entry of type Book, Report, Reference,
\* Anthology or Proceedings with both an edition and a volume, get_title
\* returns the sentence-cased title followed by exactly
\* " ({Ordinal} ed., {RangeLabel}).".  (Calls that panic are the matter of C5
\* and are left aside here.)
C6_EditionVolumeSuffix ==
    (op = "get_title" /\ C6_Applies(entry) /\ ret.status = "ok")
    => ret = Ok(Some(C6_Expected(entry)))

\* C6 as amended: the same, for entries that are not a Book with a Book parent
\* (the multivolume pattern, which is tried first); nothing stands between the
\* title and the parenthetical, so no plain terminator is combined with it.
C6_EditionVolumeSuffixUnlessMultivolume ==
    (/\ op = "get_title"
     /\ C6_Applies(entry)
     /\ ~(entry.entry_type = "Book" /\ HasParentOf(entry, {"Book"})))
    => ret = Ok(Some(C6_Expected(entry)))

\* A Report "On Growth", 2nd edition, volume 4, below a Periodical parent, was
\* titled "On growth (2nd ed., Vol. 4).".
C6_Witness ==
    /\ op = "get_title"
    /\ entry.entry_type = "Report"
    /\ Len(entry.parents) = 1
    /\ entry.title = Some(<<"O", "n", " ", "G", "r", "o", "w", "t", "h">>)
    /\ entry.edition = Some([kind |-> "Number", n |-> 2])
    /\ entry.volume = Some([start |-> 4, end |-> 4])
    /\ ret.val = Some(<<"O", "n", " ", "g", "r", "o", "w", "t", "h", " ", "(", "2", "n", "d", " ", "e", "d", ".", ",", " ", "V", "o", "l", ".", " ", "4", ")", ".">>)

\* ---- C7

\* The year zero-padded to a minimum width of four characters, digit by digit.
C7_Year(y) ==
    LET d(n, p) == Digit[((n \div p) % 10) + 1]
    IN IF y >= 0 /\ y <= 9999 THEN <<d(y, 1000), d(y, 100), d(y, 10), d(y, 1)>>
       ELSE IF y > 9999 THEN Dec(y)
       ELSE IF y > -1000 THEN <<"-", d(0 - y, 100), d(0 - y, 10), d(0 - y, 1)>>
       ELSE <<"-">> \o Dec(0 - y)

C7_MonthDay(date) ==
    IF ~is_ok(date.month) THEN <<>>
    ELSE <<",", " ">> \o MonthNames[unwrap(date.month)]
         \o (IF is_ok(date.day) THEN <<" ">> \o Dec(unwrap(date.day)) ELSE <<>>)

\* C7 as stated: "(n. d.)" without a date; otherwise "(YYYY)", "(YYYY,
\* MonthName)" or "(YYYY, MonthName D)", the year part being exactly 4 digits
\* for every year.
C7_YearFourDigits ==
    op = "get_date" =>
        /\ ret.status = "ok"
        /\ ~is_ok(entry.date) => ret.val = <<"(", "n", ".", " ", "d", ".", ")">>
        /\ is_ok(entry.date) =>
               LET v == ret.val
               IN /\ Len(v) = 6 + Len(C7_MonthDay(unwrap(entry.date)))
                  /\ v[1] = "("
                  /\ \A k \in 2..5 : \E j \in 1..10 : v[k] = Digit[j]
                  /\ SubSeq(v, 6, Len(v)) = C7_MonthDay(unwrap(entry.date)) \o <<")">>

\* C7 as amended: the year part is the year zero-padded to a minimum width of
\* 4 characters: 4 digits for years 0..9999, all the digits of a larger year,
\* and "-" followed by the digits padded to 3 for a negative year.
C7_DateYearPaddedToFour ==
    op = "get_date" =>
        /\ ~is_ok(entry.date) => ret = Ok(<<"(", "n", ".", " ", "d", ".", ")">>)
        /\ is_ok(entry.date) =>
               ret = Ok(<<"(">> \o C7_Year(unwrap(entry.date).year)
                        \o C7_MonthDay(unwrap(entry.date)) \o <<")">>)

\* The year 476 with month 3 and day 5 was rendered "(0476, March 5)".
C7_Witness ==
    /\ op = "get_date"
    /\ entry.date = Some([year |-> 476, month |-> Some(3), day |-> Some(5)])
    /\ ret.val = <<"(", "0", "4", "7", "6", ",", " ", "M", "a", "r", "c", "h", " ", "5", ")">>

\* ---- C8

EndsWith(s, t) == Len(t) <= Len(s) /\ SubSeq(s, Len(s) - Len(t) + 1, Len(s)) = t

\* The parent for_entry carries for e.
CarriedParent(e) == e.parents[unwrap(for_entry(e).val.parent) + 1]

\* The " {publisher-or-organization}." clause of the parent.
PublisherClause(parent) ==
    IF is_ok(parent.publisher) THEN <<" ">> \o unwrap(parent.publisher) \o <<".">>
    ELSE IF is_ok(parent.organization) THEN <<" ">> \o unwrap(parent.organization) \o <<".">>
    ELSE <<>>

\* The title part C8 describes: the parent's title with the suffix built from
\* the parent's own edition and volume, or else with a terminal period.
C8_TitlePart(parent) ==
    LET t == sentence_case(unwrap(parent.title))
    IN IF is_ok(parent.volume) \/ is_ok(parent.edition)
       THEN t \o ed_vol_str(parent)
       ELSE IF LastCharOr(t, "a") \in {"?", ".", "!"} THEN t ELSE t \o <<".">>

\* C8: in the CollectionItem clause a titled parent's title is followed by the
\* edition/volume suffix of the parent's own edition and volume when it has
\* either, otherwise by a terminal period, so the text before the publisher
\* clause ends in '.', '?' or '!'.
C8_ParentSuffix ==
    (/\ op = "get_source"
     /\ for_entry(entry).val.shape = "CollectionItem"
     /\ is_ok(CarriedParent(entry).title))
    => LET parent == CarriedParent(entry)
           body == SubSeq(source_res, 1, Len(source_res) - Len(PublisherClause(parent)))
       IN /\ EndsWith(source_res, PublisherClause(parent))
          /\ EndsWith(body, C8_TitlePart(parent))
          /\ LastCharOr(body, "a") \in {".", "?", "!"}

\* ---- C9

\* The persons C9 puts in the editor position: the parent's affiliated persons
\* credited as ExecutiveProducer, and the entry's authors when there are none.
C9_Persons(e, parent) ==
    LET credited ==
            IF is_ok(parent.affiliated)
            THEN flatten([k \in 1..Len(unwrap(parent.affiliated)) |->
                             IF unwrap(parent.affiliated)[k].role = "ExecutiveProducer"
                             THEN unwrap(parent.affiliated)[k].persons ELSE <<>>])
            ELSE <<>>
    IN IF Len(credited) > 0 THEN credited ELSE e.authors

\* C9: in the TvSeries clause the editor position holds the parent's
\* executive producers, and the entry's own authors whenever no affiliated
\* person of the parent has that role (list absent, or present without one).
C9_ProducersOrAuthors ==
    (op = "get_source" /\ for_entry(entry).val.shape = "TvSeries")
    => source_res = container_source(entry, CarriedParent(entry),
                                     C9_Persons(entry, CarriedParent(entry)))

\* ---- C10

RECURSIVE JoinComma(_)
JoinComma(clauses) ==
    IF Len(clauses) = 0 THEN <<>>
    ELSE IF Len(clauses) = 1 THEN clauses[1]
    ELSE clauses[1] \o <<",", " ">> \o JoinComma(Tail(clauses))

C10_Range(r) ==
    IF r.start = r.end THEN Dec(r.start) ELSE Dec(r.start) \o <<EnDash>> \o Dec(r.end)

\* The clauses of a PeriodicalItem that are present, in order: the parent's
\* title, the parent's "{volume}({issue})", the serial number or else the pages.
C10_Clauses(e, parent) ==
    (IF is_ok(parent.title) THEN <<sentence_case(unwrap(parent.title))>> ELSE <<>>)
    \o (IF is_ok(parent.volume) \/ is_ok(parent.issue)
        THEN << (IF is_ok(parent.volume) THEN C10_Range(unwrap(parent.volume)) ELSE <<>>)
                \o (IF is_ok(parent.issue)
                    THEN <<"(">> \o Dec(unwrap(parent.issue)) \o <<")">> ELSE <<>>) >>
        ELSE <<>>)
    \o (IF is_ok(e.serial_number) THEN <<unwrap(e.serial_number)>>
        ELSE IF is_ok(e.page_range) THEN <<C10_Range(unwrap(e.page_range))>>
        ELSE <<>>)

\* C10: the PeriodicalItem clause is the present clauses among parent title,
\* parent "{volume}({issue})" and serial number (else page range), in that
\* order, with ", " only between emitted clauses, one trailing "." iff some
\* clause was emitted, and empty when none is present.
C10_PeriodicalClauses ==
    (op = "get_source" /\ for_entry(entry).val.shape = "PeriodicalItem")
    => LET clauses == C10_Clauses(entry, CarriedParent(entry))
       IN source_res = IF Len(clauses) = 0 THEN <<>> ELSE JoinComma(clauses) \o <<".">>

\* An article on pages 10-19 of an untitled periodical, volumes 3-5, issue 2,
\* listed after an unrelated parent, got the clause "3-5(2), 10-19.".
C10_Witness ==
    /\ op = "get_source"
    /\ Len(entry.parents) = 2
    /\ entry.parents[2].entry_type = "Periodical"
    /\ ~is_ok(entry.parents[2].title)
    /\ ~is_ok(entry.serial_number)
    /\ source_res = <<"3", EnDash, "5", "(", "2", ")", ",", " ", "1", "0", EnDash, "1", "9", ".">>

\* ---- C11

\* C11: no entry whose own type is WebItem is classified as the
\* parent-carrying WebItem shape, because the StandaloneWebItem test or an
\* earlier one decides first; the WebItem shape is only reached by an entry of
\* another type that has a parent of type Misc, Blog or WebItem.
C11_WebItemShapeOnlyForOtherTypes ==
    op = "for_entry" =>
        /\ ret.status = "ok"
        /\ entry.entry_type = "WebItem" => ret.val.shape # "WebItem"
        /\ ret.val.shape = "WebItem" =>
               /\ entry.entry_type # "WebItem"
               /\ HasParentOf(entry, {"Misc", "Blog", "WebItem"})

\* A WebItem entry with one Book parent, which the (own = WebItem, parent =
\* Any) pairing would accept, was classified as StandaloneWebItem.
C11_Witness ==
    /\ op = "for_entry"
    /\ entry.entry_type = "WebItem"
    /\ Len(entry.parents) = 1
    /\ entry.parents[1].entry_type = "Book"
    /\ ret.val.shape = "StandaloneWebItem"

====
